---- MODULE Spec2Model ----
(***************************************************************************)
(* Application lifecycle orchestration of runtipi.                         *)
(*                                                                         *)
(*  - RestartAppCommand (restart-app-command.ts) over the app table that   *)
(*    AppQueries (apps.queries.ts) reads and writes;                       *)
(*  - UninstallAppCommand (uninstall-app-command.ts) over the directories  *)
(*    that AppFilesManager (app-files-manager.ts) removes.                 *)
(*                                                                         *)
(* Every await of the TypeScript code is a point where other requests may  *)
(* run, so each command is cut into one action per awaited call.  The      *)
(* database queries themselves are taken to succeed; the event dispatcher, *)
(* the container engine and the filesystem may fail.                       *)
(***************************************************************************)
EXTENDS Integers, Sequences, FiniteSets, TLC

\* ------------------------------------------------------------------ bounds
\* Number of restart requests, and of uninstall executions, in a behaviour.
NumReqs == 2
NumUninstalls == 2
\* Number of install preparations in a behaviour.
NumInstalls == 2
\* Longest namespaced app id handed to getAppPaths, in characters.
MaxIdLen == 4
\* Number of AuthService calls in a behaviour.
NumAuthCalls == 2

Reqs == 1..NumReqs
Uninstalls == 1..NumUninstalls
Installs == 1..NumInstalls
AuthCalls == 1..NumAuthCalls

\* Namespaced app ids, store_id.
AppIds == {"store_a", "store_b"}
Configs == {"config"}

\* ------------------------------------------------------------- app records
\* The closed set of statuses of an app record.
AppStatus ==
  {"installing", "running", "stopped", "updating", "restarting", "uninstalling", "errored"}

TransitionalStatus == {"installing", "updating", "restarting", "uninstalling"}

\* The statuses from which a restart is a valid transition.
RestartableStatus == {"running", "stopped"}

\* A row of appTable.
App == [id : AppIds, status : AppStatus, config : Configs]

VARIABLES
  appTable,        \* the rows of appTable, by id: a function on the ids present
  pc,              \* restart request -> position in execute / sendEvent
  appId,           \* restart request -> params.appId ("" before the call)
  app,             \* restart request -> the local `app` of execute
  dispatchResult,  \* restart request -> how dispatchEventAsync settled
  ret,             \* restart request -> what execute gave its caller
  updates,         \* restart request -> the statuses it passed to updateApp
  dispatches,      \* restart request -> number of dispatchEventAsync calls
  errorLog,        \* restart requests whose failure logger.error recorded
  upc,             \* uninstall execution -> position in execute
  uAppId,          \* uninstall execution -> appId ("" before the call)
  uError,          \* uninstall execution -> the call whose error was caught
  uResult,         \* uninstall execution -> the value execute returned
  composeCalls,    \* uninstall execution -> outcomes of its composeApp calls
  warnLog,         \* uninstall executions for which logger.warn was called
  removed,         \* uninstall execution -> directories it removed
  appInstalledDir, \* app id -> its installed directory exists
  appDataDir,      \* app id -> its data directory exists
  bulkArgs,        \* the arguments of the last updateAppsByStatusNotIn call
  bulkReturned,    \* the rows that call returned
  ipc,             \* install preparation -> position in the command
  iAppId,          \* install preparation -> appId ("" before the call)
  chmodOutcome,    \* install preparation -> how its chmod ended
  permErrorLog,    \* preparations whose chmod failure logger.error recorded
  pathId,          \* getAppPaths call -> its namespacedAppId, a character sequence
  pathResult,      \* getAppPaths call -> what it returned or that it threw
  isVisibleOnGuestDashboard, \* app id -> the column of that name of its row
  guestResult,     \* what the last getGuestDashboardApps call returned
  architecture,    \* configuration.get('architecture')
  composeFiles,    \* app id -> file name -> content of that file of its installed directory
  composeWritten,  \* app id -> the content its last writeDockerComposeYml wrote
  composeRead,     \* app id -> what getDockerComposeYaml returned since that write
  users,           \* the rows of the user table, by id
  totpCache,       \* the cache entries cache.set(totpSessionId, userId) made
  sessions,        \* the sessions sessionManager.setSession made
  requestFile,     \* the file state/password-change-request
  now,             \* Date.now() / 1000
  calls            \* AuthService call -> its operation, position, params, locals, result

bulkVars == <<bulkArgs, bulkReturned>>
restartVars ==
  <<appTable, pc, appId, app, dispatchResult, ret, updates, dispatches, errorLog>>
uninstallVars ==
  <<upc, uAppId, uError, uResult, composeCalls, warnLog, removed, appInstalledDir,
    appDataDir>>
\* The variables of the other specifications.
prepareVars == <<ipc, iAppId, chmodOutcome, permErrorLog>>
pathVars == <<pathId, pathResult>>
uninstallProcVars == <<upc, uAppId, uError, uResult, composeCalls, warnLog, removed>>
guestVars == <<isVisibleOnGuestDashboard, guestResult>>
composeVars == <<architecture, composeFiles, composeWritten, composeRead>>
authVars == <<users, totpCache, sessions, requestFile, now, calls>>
otherVars == <<guestVars, composeVars, authVars>>
extVars == <<bulkVars, prepareVars, pathVars, otherVars>>
vars == <<restartVars, uninstallVars, extVars>>

\* -------------------------------------------------------------- AppQueries
\* What findFirst gives when no row matches.
Undefined == [id |-> "", status |-> "undefined", config |-> ""]

getApp(id) == IF id \in DOMAIN appTable THEN appTable[id] ELSE Undefined

SetDataWholesale(row, data) ==
  [f \in DOMAIN row |-> IF f \in DOMAIN data THEN data[f] ELSE ""]

\* set(data): the fields of data replace the row's.
SetData(row, data) ==
  [f \in DOMAIN row |-> IF f \in DOMAIN data THEN data[f] ELSE row[f]]

updateAppAllRows(id, data) ==
  [i \in DOMAIN appTable |-> SetData(appTable[i], data)]

updateAppUpsert(id, data) ==
  [i \in DOMAIN appTable \cup {id} |->
     IF i # id THEN appTable[i]
     ELSE IF i \in DOMAIN appTable THEN SetData(appTable[i], data)
     ELSE [id |-> id, status |-> data.status, config |-> "config"]]

\* update ... where id = appId: a table without that id is left as it is.
updateApp(id, data) ==
  [i \in DOMAIN appTable |-> IF i = id THEN SetData(appTable[i], data) ELSE appTable[i]]

deleteApp(id) == [i \in DOMAIN appTable \ {id} |-> appTable[i]]

createApp(data) ==
  [i \in DOMAIN appTable \cup {data.id} |-> IF i = data.id THEN data ELSE appTable[i]]

\* All contents the table can have: at most one row per id.
Tables ==
  UNION {{t \in [S -> App] : \A i \in S : t[i].id = i} : S \in SUBSET AppIds}

\* --------------------------------------------------------- RestartAppCommand
\* execute reads of its local `app` whether it is defined and its config: the
\* local holds the row without the status, which the code never looks at.
NoApp == [id |-> "", config |-> ""]
Local(row) == [id |-> row.id, config |-> row.config]

\* The local `app` once execute has returned.
OutOfScope == [id |-> "", config |-> "out of scope"]

\* The dispatcher's result for an engine call that ran out of time: a failure
\* of its own kind, with success not set.
TimeoutResult == "timeout"

DispatchOutcomes == {"success", "failure", TimeoutResult, "rejected"}

FinalStatusInverted(success) == IF success THEN "stopped" ELSE "running"

\* sendEvent: the status written for a dispatch result { success }.
FinalStatus(success) == IF success THEN "running" ELSE "stopped"

ExecuteGetAppUnchecked(r, a) ==
  /\ pc[r] = "idle"
  /\ appId' = [appId EXCEPT ![r] = a]
  /\ app' = [app EXCEPT ![r] = Local(getApp(a))]
  /\ pc' = [pc EXCEPT ![r] = "found"]
  /\ UNCHANGED <<appTable, dispatchResult, ret, updates, dispatches, errorLog>>
  /\ UNCHANGED <<uninstallVars, extVars>>

\* execute, up to the throw: await getApp(appId); if (!app) throw.
ExecuteGetApp(r, a) ==
  /\ pc[r] = "idle"
  /\ appId' = [appId EXCEPT ![r] = a]
  /\ app' = [app EXCEPT ![r] = Local(getApp(a))]
  /\ IF getApp(a) = Undefined
       THEN /\ pc' = [pc EXCEPT ![r] = "thrown"]
            /\ ret' = [ret EXCEPT ![r] = "APP_ERROR_APP_NOT_FOUND"]
       ELSE /\ pc' = [pc EXCEPT ![r] = "found"]
            /\ ret' = ret
  /\ UNCHANGED <<appTable, dispatchResult, updates, dispatches, errorLog>>
  /\ UNCHANGED <<uninstallVars, extVars>>

ExecuteUpdateAppOptimistic(r) ==
  /\ pc[r] = "found"
  /\ appTable' = updateApp(appId[r], [status |-> "running"])
  /\ updates' = [updates EXCEPT ![r] = Append(@, "running")]
  /\ pc' = [pc EXCEPT ![r] = "updated"]
  /\ UNCHANGED <<appId, app, dispatchResult, ret, dispatches, errorLog>>
  /\ UNCHANGED <<uninstallVars, extVars>>

\* execute: await updateApp(appId, { status: 'restarting' }).
ExecuteUpdateApp(r) ==
  /\ pc[r] = "found"
  /\ appTable' = updateApp(appId[r], [status |-> "restarting"])
  /\ updates' = [updates EXCEPT ![r] = Append(@, "restarting")]
  /\ pc' = [pc EXCEPT ![r] = "updated"]
  /\ UNCHANGED <<appId, app, dispatchResult, ret, dispatches, errorLog>>
  /\ UNCHANGED <<uninstallVars, extVars>>

ExecuteSendEventAwaited(r) ==
  /\ pc[r] = "updated"
  /\ dispatches' = [dispatches EXCEPT ![r] = @ + 1]
  /\ pc' = [pc EXCEPT ![r] = "dispatched"]
  /\ UNCHANGED <<appTable, appId, app, dispatchResult, ret, updates, errorLog>>
  /\ UNCHANGED <<uninstallVars, extVars>>

\* execute: void sendEvent(...): sendEvent runs up to its await, with the
\* dispatchEventAsync call made, and execute returns to its caller.
ExecuteSendEvent(r) ==
  /\ pc[r] = "updated"
  /\ dispatches' = [dispatches EXCEPT ![r] = @ + 1]
  /\ pc' = [pc EXCEPT ![r] = "dispatched"]
  /\ ret' = [ret EXCEPT ![r] = "resolved"]
  /\ app' = [app EXCEPT ![r] = OutOfScope]
  /\ UNCHANGED <<appTable, appId, dispatchResult, updates, errorLog>>
  /\ UNCHANGED <<uninstallVars, extVars>>

\* The promise of dispatchEventAsync settles: { success: true }, { success:
\* false } for an engine failure or a timeout, or a rejection.
DispatchEventAsync(r, o) ==
  /\ pc[r] = "dispatched"
  /\ dispatchResult' = [dispatchResult EXCEPT ![r] = o]
  /\ pc' = [pc EXCEPT ![r] = "settled"]
  /\ UNCHANGED <<appTable, appId, app, ret, updates, dispatches, errorLog>>
  /\ UNCHANGED <<uninstallVars, extVars>>

SendEventFinalizeRetry(r) ==
  /\ pc[r] = "settled"
  /\ dispatchResult[r] \in {"success", "failure", TimeoutResult}
  /\ IF dispatchResult[r] = "success"
       THEN /\ appTable' = updateApp(appId[r], [status |-> "running"])
            /\ updates' = [updates EXCEPT ![r] = Append(@, "running")]
            /\ pc' = [pc EXCEPT ![r] = "done"]
            /\ UNCHANGED <<dispatches, dispatchResult>>
       ELSE /\ dispatches' = [dispatches EXCEPT ![r] = @ + 1]
            /\ dispatchResult' = [dispatchResult EXCEPT ![r] = "none"]
            /\ pc' = [pc EXCEPT ![r] = "dispatched"]
            /\ UNCHANGED <<appTable, updates>>
  /\ UNCHANGED <<appId, app, ret, errorLog>>
  /\ UNCHANGED <<uninstallVars, extVars>>

\* sendEvent after its await, for a result: the status write of either branch.
SendEventFinalize(r) ==
  /\ pc[r] = "settled"
  /\ dispatchResult[r] \in {"success", "failure", TimeoutResult}
  /\ LET success == dispatchResult[r] = "success" IN
       /\ errorLog' = IF success THEN errorLog ELSE errorLog \cup {r}
       /\ appTable' = updateApp(appId[r], [status |-> FinalStatus(success)])
       /\ updates' = [updates EXCEPT ![r] = Append(@, FinalStatus(success))]
  /\ pc' = [pc EXCEPT ![r] = "done"]
  /\ UNCHANGED <<appId, app, dispatchResult, ret, dispatches>>
  /\ UNCHANGED <<uninstallVars, extVars>>

\* sendEvent after its await, for a rejection: the await throws, nothing in
\* sendEvent catches it, and the promise that execute discarded rejects.
SendEventRejected(r) ==
  /\ pc[r] = "settled"
  /\ dispatchResult[r] = "rejected"
  /\ pc' = [pc EXCEPT ![r] = "done"]
  /\ UNCHANGED <<appTable, appId, app, dispatchResult, ret, updates, dispatches, errorLog>>
  /\ UNCHANGED <<uninstallVars, extVars>>

\* Another operation inserts a row for an id that has none.
CreateApp(data) ==
  /\ data.id \notin DOMAIN appTable
  /\ appTable' = createApp(data)
  /\ UNCHANGED <<pc, appId, app, dispatchResult, ret, updates, dispatches, errorLog>>
  /\ UNCHANGED <<uninstallVars, extVars>>

\* Another operation deletes the row of an id.
DeleteApp(a) ==
  /\ a \in DOMAIN appTable
  /\ appTable' = deleteApp(a)
  /\ UNCHANGED <<pc, appId, app, dispatchResult, ret, updates, dispatches, errorLog>>
  /\ UNCHANGED <<uninstallVars, extVars>>

\* ------------------------------------------------------- UninstallAppCommand
\* AppLifecycleCommand.handleAppError: the result execute returns from its
\* catch block.
handleAppError == "failure"

\* execute is called: logger.info, then the call of ensureAppDir.
UninstallExecute(u, a) ==
  /\ upc[u] = "idle"
  /\ uAppId' = [uAppId EXCEPT ![u] = a]
  /\ upc' = [upc EXCEPT ![u] = "ensureAppDir"]
  /\ UNCHANGED <<uError, uResult, composeCalls, warnLog, removed, appInstalledDir,
                 appDataDir>>
  /\ UNCHANGED <<restartVars, extVars>>

EnsureAppDirSwallowed(u, ok) ==
  /\ upc[u] = "ensureAppDir"
  /\ upc' = [upc EXCEPT ![u] = "composeApp"]
  /\ uError' = [uError EXCEPT ![u] = IF ok THEN @ ELSE "ensureAppDir"]
  /\ UNCHANGED <<uAppId, uResult, composeCalls, warnLog, removed, appInstalledDir,
                 appDataDir>>
  /\ UNCHANGED <<restartVars, extVars>>

EnsureAppDirThenDelete(u, ok) ==
  /\ upc[u] = "ensureAppDir"
  /\ IF ok
       THEN /\ upc' = [upc EXCEPT ![u] = "deleteAppFolder"]
            /\ UNCHANGED <<uError, uResult>>
       ELSE /\ upc' = [upc EXCEPT ![u] = "done"]
            /\ uError' = [uError EXCEPT ![u] = "ensureAppDir"]
            /\ uResult' = [uResult EXCEPT ![u] = "failure"]
  /\ UNCHANGED <<uAppId, composeCalls, warnLog, removed, appInstalledDir, appDataDir>>
  /\ UNCHANGED <<restartVars, extVars>>

\* await this.ensureAppDir(appId, form): returns, or throws into the catch.
EnsureAppDir(u, ok) ==
  /\ upc[u] = "ensureAppDir"
  /\ IF ok
       THEN /\ upc' = [upc EXCEPT ![u] = "composeApp"]
            /\ UNCHANGED <<uError, uResult>>
       ELSE /\ upc' = [upc EXCEPT ![u] = "done"]
            /\ uError' = [uError EXCEPT ![u] = "ensureAppDir"]
            /\ uResult' = [uResult EXCEPT ![u] = handleAppError]
  /\ UNCHANGED <<uAppId, composeCalls, warnLog, removed, appInstalledDir, appDataDir>>
  /\ UNCHANGED <<restartVars, extVars>>

ComposeAppFatal(u, ok) ==
  /\ upc[u] = "composeApp"
  /\ composeCalls' = [composeCalls EXCEPT ![u] = Append(@, IF ok THEN "ok" ELSE "failed")]
  /\ IF ok
       THEN /\ upc' = [upc EXCEPT ![u] = "deleteAppFolder"]
            /\ UNCHANGED <<uError, uResult>>
       ELSE /\ upc' = [upc EXCEPT ![u] = "done"]
            /\ uError' = [uError EXCEPT ![u] = "composeApp"]
            /\ uResult' = [uResult EXCEPT ![u] = handleAppError]
  /\ UNCHANGED <<uAppId, warnLog, removed, appInstalledDir, appDataDir>>
  /\ UNCHANGED <<restartVars, extVars>>

\* await composeApp(appId, 'down --remove-orphans --volumes --rmi all')
\*   .catch(err => logger.warn(...)): a rejection is logged and swallowed.
ComposeApp(u, ok) ==
  /\ upc[u] = "composeApp"
  /\ composeCalls' = [composeCalls EXCEPT ![u] = Append(@, IF ok THEN "ok" ELSE "failed")]
  /\ warnLog' = IF ok THEN warnLog ELSE warnLog \cup {u}
  /\ upc' = [upc EXCEPT ![u] = "deleteAppFolder"]
  /\ UNCHANGED <<uAppId, uError, uResult, removed, appInstalledDir, appDataDir>>
  /\ UNCHANGED <<restartVars, extVars>>

DeleteAppFolderSwallowed(u, ok) ==
  /\ upc[u] = "deleteAppFolder"
  /\ upc' = [upc EXCEPT ![u] = "deleteAppDataDir"]
  /\ IF ok
       THEN /\ appInstalledDir' = [appInstalledDir EXCEPT ![uAppId[u]] = FALSE]
            /\ removed' = [removed EXCEPT ![u] = @ \cup {"appInstalledDir"}]
       ELSE UNCHANGED <<appInstalledDir, removed>>
  /\ UNCHANGED <<uAppId, uError, uResult, composeCalls, warnLog, appDataDir>>
  /\ UNCHANGED <<restartVars, extVars>>

\* await deleteAppFolder(appId): removeDirectory(appInstalledDir) removes the
\* directory, or throws into the catch.
DeleteAppFolder(u, ok) ==
  /\ upc[u] = "deleteAppFolder"
  /\ IF ok
       THEN /\ appInstalledDir' = [appInstalledDir EXCEPT ![uAppId[u]] = FALSE]
            /\ removed' = [removed EXCEPT ![u] = @ \cup {"appInstalledDir"}]
            /\ upc' = [upc EXCEPT ![u] = "deleteAppDataDir"]
            /\ UNCHANGED <<uError, uResult>>
       ELSE /\ upc' = [upc EXCEPT ![u] = "done"]
            /\ uError' = [uError EXCEPT ![u] = "deleteAppFolder"]
            /\ uResult' = [uResult EXCEPT ![u] = handleAppError]
            /\ UNCHANGED <<appInstalledDir, removed>>
  /\ UNCHANGED <<uAppId, composeCalls, warnLog, appDataDir>>
  /\ UNCHANGED <<restartVars, extVars>>

\* await deleteAppDataDir(appId): removeDirectory(appDataDir) removes the
\* directory and execute returns { success: true }, or throws into the catch.
DeleteAppDataDir(u, ok) ==
  /\ upc[u] = "deleteAppDataDir"
  /\ upc' = [upc EXCEPT ![u] = "done"]
  /\ IF ok
       THEN /\ appDataDir' = [appDataDir EXCEPT ![uAppId[u]] = FALSE]
            /\ removed' = [removed EXCEPT ![u] = @ \cup {"appDataDir"}]
            /\ uResult' = [uResult EXCEPT ![u] = "success"]
            /\ UNCHANGED uError
       ELSE /\ uError' = [uError EXCEPT ![u] = "deleteAppDataDir"]
            /\ uResult' = [uResult EXCEPT ![u] = handleAppError]
            /\ UNCHANGED <<appDataDir, removed>>
  /\ UNCHANGED <<uAppId, composeCalls, warnLog, appInstalledDir>>
  /\ UNCHANGED <<restartVars, extVars>>

\* ----------------------------------------------------------- AppFilesManager
Chars == {"a", "b", "_"}

\* The strings of at most MaxIdLen characters.
NamespacedIds == UNION {[1..n -> Chars] : n \in 0..MaxIdLen}

RECURSIVE SplitFrom(_, _, _)
SplitFrom(s, sep, cur) ==
  IF s = <<>> THEN <<cur>>
  ELSE IF Head(s) = sep THEN <<cur>> \o SplitFrom(Tail(s), sep, <<>>)
  ELSE SplitFrom(Tail(s), sep, Append(cur, Head(s)))

\* String.prototype.split(sep): the parts between the separators, all of them.
split(s, sep) == SplitFrom(s, sep, <<>>)

\* const [a, b] = parts: the k-th part; a part that is not there is undefined,
\* which `!part` takes as it takes the empty string.
Part(parts, k) == IF k <= Len(parts) THEN parts[k] ELSE <<>>

RECURSIVE pathJoin(_)
\* path.join of segments that hold no '/' and no '.'.
pathJoin(segments) ==
  IF Len(segments) = 1 THEN segments[1]
  ELSE segments[1] \o <<"/">> \o pathJoin(Tail(segments))

\* directories.appDataDir and directories.dataDir of the configuration.
DirectoriesAppDataDir == <<"<appDataDir>">>
DirectoriesDataDir == <<"<dataDir>">>

getInstalledAppsFolder == pathJoin(<<DirectoriesDataDir, <<"a", "p", "p", "s">>>>)

Threw == [threw |-> TRUE, dataDir |-> <<>>, installedDir |-> <<>>]

getAppPathsUnchecked(namespacedAppId) ==
  LET parts == split(namespacedAppId, "_")
  IN [threw |-> FALSE,
      dataDir |-> pathJoin(<<DirectoriesAppDataDir, Part(parts, 1), Part(parts, 2)>>),
      installedDir |-> pathJoin(<<getInstalledAppsFolder, Part(parts, 1), Part(parts, 2)>>)]

getAppPaths(namespacedAppId) ==
  LET parts == split(namespacedAppId, "_")
      store == Part(parts, 1)
      id == Part(parts, 2)
  IN IF store = <<>> \/ id = <<>>
       THEN Threw
       ELSE [threw |-> FALSE,
             dataDir |-> pathJoin(<<DirectoriesAppDataDir, store, id>>),
             installedDir |-> pathJoin(<<getInstalledAppsFolder, store, id>>)]

\* The two getAppPaths calls that are compared.
PathCalls == {"first", "second"}
NotCalled == [threw |-> FALSE, dataDir |-> <<>>, installedDir |-> <<>>]

GetAppPaths(k) ==
  /\ pathResult[k] = NotCalled
  /\ pathResult' = [pathResult EXCEPT ![k] = getAppPaths(pathId[k])]
  /\ UNCHANGED <<pathId, restartVars, uninstallVars, bulkVars, prepareVars, otherVars>>

\* createAppDataDir: createDirectory(appDataDir) makes the directory or throws.
createAppDataDir(ok) == [threw |-> ~ok, logged |-> FALSE]

\* setAppDataDirPermissions: execAsync(chmod ...).catch(() => logger.error(...)):
\* a failed chmod is logged and the promise resolves.
setAppDataDirPermissions(chmodOk) == [threw |-> FALSE, logged |-> ~chmodOk]

\* --------------------------------------------- a command with a preparation
\* The preparation of an install and its dispatch: create the data directory,
\* set its permissions, then the engine call; a step that throws aborts the
\* command, which ends errored with nothing dispatched.
InstallExecute(c, a) ==
  /\ ipc[c] = "idle"
  /\ iAppId' = [iAppId EXCEPT ![c] = a]
  /\ ipc' = [ipc EXCEPT ![c] = "createAppDataDir"]
  /\ UNCHANGED <<chmodOutcome, permErrorLog>>
  /\ UNCHANGED <<restartVars, uninstallVars, bulkVars, pathVars, otherVars>>

InstallCreateAppDataDir(c, ok) ==
  /\ ipc[c] = "createAppDataDir"
  /\ IF createAppDataDir(ok).threw
       THEN /\ ipc' = [ipc EXCEPT ![c] = "errored"]
            /\ UNCHANGED appDataDir
       ELSE /\ ipc' = [ipc EXCEPT ![c] = "setAppDataDirPermissions"]
            /\ appDataDir' = [appDataDir EXCEPT ![iAppId[c]] = TRUE]
  /\ UNCHANGED <<iAppId, chmodOutcome, permErrorLog>>
  /\ UNCHANGED <<restartVars, uninstallProcVars, appInstalledDir, bulkVars, pathVars, otherVars>>

InstallSetAppDataDirPermissions(c, chmodOk) ==
  /\ ipc[c] = "setAppDataDirPermissions"
  /\ chmodOutcome' = [chmodOutcome EXCEPT ![c] = IF chmodOk THEN "ok" ELSE "failed"]
  /\ permErrorLog' =
       IF setAppDataDirPermissions(chmodOk).logged THEN permErrorLog \cup {c} ELSE permErrorLog
  /\ ipc' = [ipc EXCEPT ![c] =
       IF setAppDataDirPermissions(chmodOk).threw THEN "errored" ELSE "prepared"]
  /\ UNCHANGED iAppId
  /\ UNCHANGED <<restartVars, uninstallVars, bulkVars, pathVars, otherVars>>

InstallDispatch(c) ==
  /\ ipc[c] = "prepared"
  /\ ipc' = [ipc EXCEPT ![c] = "dispatched"]
  /\ UNCHANGED <<iAppId, chmodOutcome, permErrorLog>>
  /\ UNCHANGED <<restartVars, uninstallVars, bulkVars, pathVars, otherVars>>

\* ------------------------------------------------- updateAppsByStatusNotIn
MatchesStatusIn(row, statuses) == row.status \in statuses

\* where(notInArray(appTable.status, statuses)).
MatchesStatusNotIn(row, statuses) == row.status \notin statuses

\* update(appTable).set(data).where(...)
updateAppsByStatusNotIn(statuses, data) ==
  [i \in DOMAIN appTable |->
     IF MatchesStatusNotIn(appTable[i], statuses) THEN SetData(appTable[i], data)
     ELSE appTable[i]]

\* .returning(): the rows the statement updated, as updated.
returning(statuses, data) ==
  {SetData(appTable[i], data) :
     i \in {j \in DOMAIN appTable : MatchesStatusNotIn(appTable[j], statuses)}}

UpdateAppsByStatusNotIn(statuses, data) ==
  /\ appTable' = updateAppsByStatusNotIn(statuses, data)
  /\ bulkReturned' = returning(statuses, data)
  /\ bulkArgs' = [statuses |-> statuses, data |-> data]
  /\ UNCHANGED <<pc, appId, app, dispatchResult, ret, updates, dispatches, errorLog>>
  /\ UNCHANGED <<uninstallVars, prepareVars, pathVars, otherVars>>

\* --------------------------------------------------- getGuestDashboardApps
\* The app ids in ascending order, as asc(appTable.id) compares them.
IdOrder == <<"store_a", "store_b">>

IdRank(id) == CHOOSE i \in 1..Len(IdOrder) : IdOrder[i] = id

\* asc(appTable.id)
asc(row1, row2) == IdRank(row1.id) <= IdRank(row2.id)

RECURSIVE orderBy(_)
orderBy(rows) ==
  IF rows = {} THEN <<>>
  ELSE LET first == CHOOSE r \in rows : \A q \in rows : asc(r, q)
       IN <<first>> \o orderBy(rows \ {first})

GuestDashboardWhereVisible(row) == isVisibleOnGuestDashboard[row.id]

\* and(eq(appTable.status, 'running'), eq(appTable.isVisibleOnGuestDashboard, true))
GuestDashboardWhere(row) ==
  row.status = "running" /\ isVisibleOnGuestDashboard[row.id] = TRUE

getGuestDashboardApps ==
  orderBy({appTable[a] : a \in {b \in DOMAIN appTable : GuestDashboardWhere(appTable[b])}})

NotQueried == [called |-> FALSE, rows |-> <<>>]

GetGuestDashboardApps ==
  /\ guestResult' = [called |-> TRUE, rows |-> getGuestDashboardApps]
  /\ UNCHANGED <<isVisibleOnGuestDashboard, composeVars, authVars>>
  /\ UNCHANGED <<restartVars, uninstallVars, bulkVars, prepareVars, pathVars>>

\* updateApp(id, { isVisibleOnGuestDashboard }) on an existing row.
UpdateAppVisibility(a, visible) ==
  /\ a \in DOMAIN appTable
  /\ isVisibleOnGuestDashboard' = [isVisibleOnGuestDashboard EXCEPT ![a] = visible]
  /\ UNCHANGED <<guestResult, composeVars, authVars>>
  /\ UNCHANGED <<restartVars, uninstallVars, bulkVars, prepareVars, pathVars>>

\* ------------------------------------------------ the compose file of an app
Architectures == {"arm64", "amd64"}
ComposeYml == "docker-compose.yml"
ComposeArm64Yml == "docker-compose.arm64.yml"
ComposeFileNames == {ComposeYml, ComposeArm64Yml}
ComposeContents == {"compose1", "compose2"}
NoFile == "<absent>"
Null == "<null>"
NotRead == [path |-> "", content |-> Null, error |-> FALSE]

\* The file getDockerComposeYaml reads: the arm64 file when the architecture
\* is arm64 and that file exists, else docker-compose.yml.
dockerComposePathRead(a) ==
  IF architecture = "arm64" /\ composeFiles[a][ComposeArm64Yml] # NoFile
    THEN ComposeArm64Yml
    ELSE ComposeYml

\* getDockerComposeYaml(id); ioOk is whether pathExists and readTextFile of
\* the try block went through (an error there is logged, content stays null).
getDockerComposeYaml(a, ioOk) ==
  LET dockerComposePath == dockerComposePathRead(a)
  IN [path |-> dockerComposePath,
      content |-> IF ioOk /\ composeFiles[a][dockerComposePath] # NoFile
                    THEN composeFiles[a][dockerComposePath]
                    ELSE Null,
      error |-> ~ioOk]

GetDockerComposeYaml(a, ioOk) ==
  /\ composeRead' = [composeRead EXCEPT ![a] = getDockerComposeYaml(a, ioOk)]
  /\ UNCHANGED <<architecture, composeFiles, composeWritten, guestVars, authVars>>
  /\ UNCHANGED <<restartVars, uninstallVars, bulkVars, prepareVars, pathVars>>

\* writeDockerComposeYml(appId, composeFile): writeTextFile on
\* docker-compose.yml writes the file or throws.
WriteDockerComposeYml(a, composeFile, ok) ==
  /\ IF ok
       THEN /\ composeFiles' = [composeFiles EXCEPT ![a][ComposeYml] = composeFile]
            /\ composeWritten' = [composeWritten EXCEPT ![a] = composeFile]
            /\ composeRead' = [composeRead EXCEPT ![a] = NotRead]
       ELSE UNCHANGED <<composeFiles, composeWritten, composeRead>>
  /\ UNCHANGED <<architecture, guestVars, authVars>>
  /\ UNCHANGED <<restartVars, uninstallVars, bulkVars, prepareVars, pathVars>>

\* ------------------------------------------------------------- AuthService
Usernames == {"a@tipi", "b@tipi"}
Passwords == {"password1", "password2"}
TotpSecrets == {"key1", "key2"}

\* argon2.hash and argon2.verify: a hash verifies the password it was made of.
argon2Hash(password) == [argon2 |-> password]
argon2Verify(hash, password) == hash = argon2Hash(password)

\* encrypt(data, salt) and decrypt(text, salt): the data comes back under
\* the salt it was encrypted with.
encrypt(data, salt) == [data |-> data, salt |-> salt]
decrypt(text, salt) == IF text.salt = salt THEN text.data ELSE "garbage"

\* totpSecret: null
NullSecret == [data |-> "", salt |-> ""]
\* salt: null
NullSalt == ""
\* generateSessionId(''): the salt made for a user that has none.
NewSalt == "salt"

\* A TOTP code is the code of one secret, or of none.
TotpCodes == [of : TotpSecrets \cup {"none"}]
\* TotpAuthenticator.check(totpCode, totpSecret)
TotpCheck(totpCode, totpSecret) == totpCode.of = totpSecret

UserIds == {1, 2}
NoUser ==
  [id |-> 0, username |-> "", password |-> argon2Hash(""), operator |-> FALSE,
   totpEnabled |-> FALSE, totpSecret |-> NullSecret, salt |-> NullSalt]

getUserById(userId) == IF userId \in DOMAIN users THEN users[userId] ELSE NoUser

getUserByUsername(username) ==
  IF \E i \in DOMAIN users : users[i].username = username
    THEN users[CHOOSE i \in DOMAIN users : users[i].username = username]
    ELSE NoUser

getOperators == {users[i] : i \in {j \in DOMAIN users : users[j].operator}}

\* cache.get(key): the value set under the key, or nothing (0).
cacheGet(key) ==
  IF \E e \in totpCache : e.key = key
    THEN (CHOOSE e \in totpCache : e.key = key).val
    ELSE 0

\* The parameters of a call; the fields an operation does not take stay as here.
NoArg ==
  [username |-> "", password |-> "", userId |-> 0, totpSessionId |-> 0,
   totpCode |-> [of |-> "none"], newPassword |-> ""]

IdleCall == [op |-> "", pc |-> "idle", arg |-> NoArg, user |-> NoUser, ret |-> "pending"]

\* The call goes on to its next position.
Goto(c, pcNext) == [calls EXCEPT ![c].pc = pcNext]
\* The call throws the error, or returns the value.
Finish(c, result) == [calls EXCEPT ![c].pc = "done", ![c].ret = result]

\* login, up to the answer of getUserByUsername.
Login(c, username, password) ==
  /\ calls[c].pc = "idle"
  /\ LET user == getUserByUsername(username)
         call == [IdleCall EXCEPT !.op = "login", !.user = user,
                                  !.arg = [NoArg EXCEPT !.username = username,
                                                        !.password = password]]
     IN calls' = [calls EXCEPT ![c] =
          IF user = NoUser
            THEN [call EXCEPT !.pc = "done", !.ret = "AUTH_ERROR_USER_NOT_FOUND"]
            ELSE [call EXCEPT !.pc = "verify"]]
  /\ UNCHANGED <<users, totpCache, sessions, requestFile, now>>
  /\ UNCHANGED <<restartVars, uninstallVars, bulkVars, prepareVars, pathVars, guestVars, composeVars>>

LoginVerifiedNoTotpGate(c) ==
  /\ calls[c].op = "login" /\ calls[c].pc = "verify"
  /\ LET user == calls[c].user
     IN IF ~argon2Verify(user.password, calls[c].arg.password)
          THEN /\ calls' = Finish(c, "AUTH_ERROR_INVALID_CREDENTIALS")
               /\ UNCHANGED <<totpCache, sessions>>
          ELSE /\ sessions' = sessions \cup {[sessionId |-> c, userId |-> user.id]}
               /\ calls' = Finish(c, "sessionId")
               /\ UNCHANGED totpCache
  /\ UNCHANGED <<users, requestFile, now>>
  /\ UNCHANGED <<restartVars, uninstallVars, bulkVars, prepareVars, pathVars, guestVars, composeVars>>

\* login, from the answer of argon2.verify on: the TOTP session id
\* (generateSessionId('otp')) and the session id (uuidv4()) are fresh, which
\* the number of the call stands for.
LoginVerified(c) ==
  /\ calls[c].op = "login" /\ calls[c].pc = "verify"
  /\ LET user == calls[c].user
     IN IF ~argon2Verify(user.password, calls[c].arg.password)
          THEN /\ calls' = Finish(c, "AUTH_ERROR_INVALID_CREDENTIALS")
               /\ UNCHANGED <<totpCache, sessions>>
          ELSE IF user.totpEnabled
            THEN /\ totpCache' = totpCache \cup {[key |-> c, val |-> user.id]}
                 /\ calls' = Finish(c, "totpSessionId")
                 /\ UNCHANGED sessions
            ELSE /\ sessions' = sessions \cup {[sessionId |-> c, userId |-> user.id]}
                 /\ calls' = Finish(c, "sessionId")
                 /\ UNCHANGED totpCache
  /\ UNCHANGED <<users, requestFile, now>>
  /\ UNCHANGED <<restartVars, uninstallVars, bulkVars, prepareVars, pathVars, guestVars, composeVars>>

\* verifyTotp, up to the answer of cache.get.
VerifyTotp(c, totpSessionId, totpCode) ==
  /\ calls[c].pc = "idle"
  /\ LET userId == cacheGet(totpSessionId)
         call == [IdleCall EXCEPT !.op = "verifyTotp",
                                  !.arg = [NoArg EXCEPT !.totpSessionId = totpSessionId,
                                                        !.totpCode = totpCode,
                                                        !.userId = userId]]
     IN calls' = [calls EXCEPT ![c] =
          IF userId = 0
            THEN [call EXCEPT !.pc = "done", !.ret = "AUTH_ERROR_TOTP_SESSION_NOT_FOUND"]
            ELSE [call EXCEPT !.pc = "getUser"]]
  /\ UNCHANGED <<users, totpCache, sessions, requestFile, now>>
  /\ UNCHANGED <<restartVars, uninstallVars, bulkVars, prepareVars, pathVars, guestVars, composeVars>>

\* verifyTotp, from the answer of getUserById on.
VerifyTotpGetUser(c) ==
  /\ calls[c].op = "verifyTotp" /\ calls[c].pc = "getUser"
  /\ LET user == getUserById(calls[c].arg.userId)
     IN IF user = NoUser
          THEN /\ calls' = Finish(c, "AUTH_ERROR_USER_NOT_FOUND")
               /\ UNCHANGED sessions
          ELSE IF ~user.totpEnabled \/ user.totpSecret = NullSecret \/ user.salt = NullSalt
            THEN /\ calls' = Finish(c, "AUTH_ERROR_TOTP_NOT_ENABLED")
                 /\ UNCHANGED sessions
          ELSE IF ~TotpCheck(calls[c].arg.totpCode, decrypt(user.totpSecret, user.salt))
            THEN /\ calls' = Finish(c, "AUTH_ERROR_TOTP_INVALID_CODE")
                 /\ UNCHANGED sessions
          ELSE /\ sessions' = sessions \cup {[sessionId |-> c, userId |-> user.id]}
               /\ calls' = [Finish(c, "true") EXCEPT ![c].user = user]
  /\ UNCHANGED <<users, totpCache, requestFile, now>>
  /\ UNCHANGED <<restartVars, uninstallVars, bulkVars, prepareVars, pathVars, guestVars, composeVars>>

\* set(data) on a user row: the fields of data are set, the others kept.
SetUserData(row, data) ==
  [f \in DOMAIN row |-> IF f \in DOMAIN data THEN data[f] ELSE row[f]]

\* updateUser(id, data): UPDATE ... WHERE id = id.
updateUser(id, data) ==
  [i \in DOMAIN users |-> IF i = id THEN SetUserData(users[i], data) ELSE users[i]]

\* getTotpUri, up to the answer of getUserById.
GetTotpUri(c, userId, password) ==
  /\ calls[c].pc = "idle"
  /\ LET user == getUserById(userId)
         call == [IdleCall EXCEPT !.op = "getTotpUri", !.user = user,
                                  !.arg = [NoArg EXCEPT !.userId = userId,
                                                        !.password = password]]
     IN calls' = [calls EXCEPT ![c] =
          IF user = NoUser
            THEN [call EXCEPT !.pc = "done", !.ret = "AUTH_ERROR_USER_NOT_FOUND"]
            ELSE [call EXCEPT !.pc = "verify"]]
  /\ UNCHANGED <<users, totpCache, sessions, requestFile, now>>
  /\ UNCHANGED <<restartVars, uninstallVars, bulkVars, prepareVars, pathVars, guestVars, composeVars>>

\* getTotpUri, from the answer of argon2.verify on; newTotpSecret is what
\* TotpAuthenticator.generateSecret() gave.
GetTotpUriVerified(c, newTotpSecret) ==
  /\ calls[c].op = "getTotpUri" /\ calls[c].pc = "verify"
  /\ LET user == calls[c].user
         salt == IF user.salt = NullSalt THEN NewSalt ELSE user.salt
     IN IF ~argon2Verify(user.password, calls[c].arg.password)
          THEN /\ calls' = Finish(c, "AUTH_ERROR_INVALID_PASSWORD")
               /\ UNCHANGED users
          ELSE IF user.totpEnabled
            THEN /\ calls' = Finish(c, "AUTH_ERROR_TOTP_ALREADY_ENABLED")
                 /\ UNCHANGED users
          ELSE /\ users' = updateUser(calls[c].arg.userId,
                             [totpSecret |-> encrypt(newTotpSecret, salt), salt |-> salt])
               /\ calls' = Finish(c, "uri")
  /\ UNCHANGED <<totpCache, sessions, requestFile, now>>
  /\ UNCHANGED <<restartVars, uninstallVars, bulkVars, prepareVars, pathVars, guestVars, composeVars>>

\* setupTotp, up to the answer of getUserById.
SetupTotp(c, userId, totpCode) ==
  /\ calls[c].pc = "idle"
  /\ LET user == getUserById(userId)
         call == [IdleCall EXCEPT !.op = "setupTotp", !.user = user,
                                  !.arg = [NoArg EXCEPT !.userId = userId,
                                                        !.totpCode = totpCode]]
     IN calls' = [calls EXCEPT ![c] =
          IF user = NoUser
            THEN [call EXCEPT !.pc = "done", !.ret = "AUTH_ERROR_USER_NOT_FOUND"]
            ELSE [call EXCEPT !.pc = "update"]]
  /\ UNCHANGED <<users, totpCache, sessions, requestFile, now>>
  /\ UNCHANGED <<restartVars, uninstallVars, bulkVars, prepareVars, pathVars, guestVars, composeVars>>

\* setupTotp, from its checks on the user it read to its updateUser.
SetupTotpUpdate(c) ==
  /\ calls[c].op = "setupTotp" /\ calls[c].pc = "update"
  /\ LET user == calls[c].user
     IN IF user.totpEnabled \/ user.totpSecret = NullSecret \/ user.salt = NullSalt
          THEN /\ calls' = Finish(c, "AUTH_ERROR_TOTP_ALREADY_ENABLED")
               /\ UNCHANGED users
          ELSE IF ~TotpCheck(calls[c].arg.totpCode, decrypt(user.totpSecret, user.salt))
            THEN /\ calls' = Finish(c, "AUTH_ERROR_TOTP_INVALID_CODE")
                 /\ UNCHANGED users
          ELSE /\ users' = updateUser(calls[c].arg.userId, [totpEnabled |-> TRUE])
               /\ calls' = Finish(c, "true")
  /\ UNCHANGED <<totpCache, sessions, requestFile, now>>
  /\ UNCHANGED <<restartVars, uninstallVars, bulkVars, prepareVars, pathVars, guestVars, composeVars>>

\* disableTotp, up to the answer of getUserById.
DisableTotp(c, userId, password) ==
  /\ calls[c].pc = "idle"
  /\ LET user == getUserById(userId)
         call == [IdleCall EXCEPT !.op = "disableTotp", !.user = user,
                                  !.arg = [NoArg EXCEPT !.userId = userId,
                                                        !.password = password]]
     IN calls' = [calls EXCEPT ![c] =
          IF user = NoUser
            THEN [call EXCEPT !.pc = "done", !.ret = "AUTH_ERROR_USER_NOT_FOUND"]
          ELSE IF ~user.totpEnabled
            THEN [call EXCEPT !.pc = "done", !.ret = "AUTH_ERROR_TOTP_NOT_ENABLED"]
            ELSE [call EXCEPT !.pc = "verify"]]
  /\ UNCHANGED <<users, totpCache, sessions, requestFile, now>>
  /\ UNCHANGED <<restartVars, uninstallVars, bulkVars, prepareVars, pathVars, guestVars, composeVars>>

\* disableTotp, from the answer of argon2.verify on.
DisableTotpVerified(c) ==
  /\ calls[c].op = "disableTotp" /\ calls[c].pc = "verify"
  /\ IF ~argon2Verify(calls[c].user.password, calls[c].arg.password)
       THEN /\ calls' = Finish(c, "AUTH_ERROR_INVALID_PASSWORD")
            /\ UNCHANGED users
       ELSE /\ users' = updateUser(calls[c].arg.userId,
                          [totpEnabled |-> FALSE, totpSecret |-> NullSecret])
            /\ calls' = Finish(c, "true")
  /\ UNCHANGED <<totpCache, sessions, requestFile, now>>
  /\ UNCHANGED <<restartVars, uninstallVars, bulkVars, prepareVars, pathVars, guestVars, composeVars>>

\* The usernames given to register: two emails, one of them also with a
\* space and a capital, no username, and a username of two characters.
RegisterUsernames == Usernames \cup {" A@tipi", "", "ab"}

\* username.trim().toLowerCase()
trimToLowerCase(username) == IF username = " A@tipi" THEN "a@tipi" ELSE username

\* username.length < 3
TooShort(username) == username \in {"", "ab"}

\* validator.isEmail(email)
isEmail(email) == email \in Usernames

\* The id the table gives a new row: one more than the ids given so far.
NextUserId == IF DOMAIN users = {} THEN 1 ELSE 1 + CHOOSE i \in DOMAIN users : \A j \in DOMAIN users : j <= i

\* createUser(data): the new row, inserted.
createUser(data) ==
  [i \in DOMAIN users \cup {NextUserId} |->
     IF i \in DOMAIN users THEN users[i]
     ELSE [NoUser EXCEPT !.id = NextUserId, !.username = data.username,
                         !.password = data.password, !.operator = data.operator]]

\* register, from the answer of getOperators to the call of getUserByUsername.
Register(c, username, password) ==
  /\ calls[c].pc = "idle"
  /\ LET call == [IdleCall EXCEPT !.op = "register",
                                  !.arg = [NoArg EXCEPT !.username = username,
                                                        !.password = password]]
     IN calls' = [calls EXCEPT ![c] =
          IF getOperators # {}
            THEN [call EXCEPT !.pc = "done", !.ret = "AUTH_ERROR_ADMIN_ALREADY_EXISTS"]
          ELSE IF username = "" \/ password = ""
            THEN [call EXCEPT !.pc = "done", !.ret = "AUTH_ERROR_MISSING_EMAIL_OR_PASSWORD"]
          ELSE IF TooShort(username) \/ ~isEmail(trimToLowerCase(username))
            THEN [call EXCEPT !.pc = "done", !.ret = "AUTH_ERROR_INVALID_USERNAME"]
            ELSE [call EXCEPT !.pc = "getUserByUsername"]]
  /\ UNCHANGED <<users, totpCache, sessions, requestFile, now>>
  /\ UNCHANGED <<restartVars, uninstallVars, bulkVars, prepareVars, pathVars, guestVars, composeVars>>

\* register, the answer of getUserByUsername(email).
RegisterGetUser(c) ==
  /\ calls[c].op = "register" /\ calls[c].pc = "getUserByUsername"
  /\ calls' =
       IF getUserByUsername(trimToLowerCase(calls[c].arg.username)) # NoUser
         THEN Finish(c, "AUTH_ERROR_USER_ALREADY_EXISTS")
         ELSE Goto(c, "createUser")
  /\ UNCHANGED <<users, totpCache, sessions, requestFile, now>>
  /\ UNCHANGED <<restartVars, uninstallVars, bulkVars, prepareVars, pathVars, guestVars, composeVars>>

\* register, createUser after argon2.hash, and the session of the new user;
\* created is whether createUser gave a row back.
RegisterCreateUser(c, created) ==
  /\ calls[c].op = "register" /\ calls[c].pc = "createUser"
  /\ IF created
       THEN /\ users' = createUser([username |-> trimToLowerCase(calls[c].arg.username),
                                    password |-> argon2Hash(calls[c].arg.password),
                                    operator |-> TRUE])
            /\ sessions' = sessions \cup {[sessionId |-> c, userId |-> NextUserId]}
            /\ calls' = Finish(c, "true")
       ELSE /\ calls' = Finish(c, "AUTH_ERROR_ERROR_CREATING_USER")
            /\ UNCHANGED <<users, sessions>>
  /\ UNCHANGED <<totpCache, requestFile, now>>
  /\ UNCHANGED <<restartVars, uninstallVars, bulkVars, prepareVars, pathVars, guestVars, composeVars>>

IsConfigured(c) ==
  /\ calls[c].pc = "idle"
  /\ calls' = [calls EXCEPT ![c] =
       [IdleCall EXCEPT !.op = "isConfigured", !.pc = "done",
                        !.ret = IF getOperators # {} THEN "true" ELSE "false"]]
  /\ UNCHANGED <<users, totpCache, sessions, requestFile, now>>
  /\ UNCHANGED <<restartVars, uninstallVars, bulkVars, prepareVars, pathVars, guestVars, composeVars>>

\* The file state/password-change-request: absent, or with a text that
\* Number() reads as a number of seconds or as NaN.
NoRequestFile == [exists |-> FALSE, numeric |-> FALSE, secs |-> 0]

REQUEST_TIMEOUT_SECS == 15 * 60

\* Number(timestamp) + REQUEST_TIMEOUT_SECS > Date.now() / 1000; with NaN the
\* comparison is false.
checkPasswordChangeRequestNoExpiry ==
  requestFile.exists /\ requestFile.numeric

checkPasswordChangeRequest ==
  /\ requestFile.exists
  /\ requestFile.numeric
  /\ requestFile.secs + REQUEST_TIMEOUT_SECS > now

\* getFirstOperator: the operator with the lowest id, if there is one.
getFirstOperator ==
  IF getOperators = {} THEN NoUser
  ELSE CHOOSE u \in getOperators : \A v \in getOperators : u.id <= v.id

\* changeOperatorPassword, up to the answer of checkPasswordChangeRequest.
ChangeOperatorPassword(c, newPassword) ==
  /\ calls[c].pc = "idle"
  /\ LET call == [IdleCall EXCEPT !.op = "changeOperatorPassword",
                                  !.arg = [NoArg EXCEPT !.newPassword = newPassword]]
     IN calls' = [calls EXCEPT ![c] =
          IF ~checkPasswordChangeRequest
            THEN [call EXCEPT !.pc = "done", !.ret = "AUTH_ERROR_NO_CHANGE_PASSWORD_REQUEST"]
            ELSE [call EXCEPT !.pc = "getFirstOperator"]]
  /\ UNCHANGED <<users, totpCache, sessions, requestFile, now>>
  /\ UNCHANGED <<restartVars, uninstallVars, bulkVars, prepareVars, pathVars, guestVars, composeVars>>

\* changeOperatorPassword, the answer of getFirstOperator.
ChangeOperatorPasswordGetOperator(c) ==
  /\ calls[c].op = "changeOperatorPassword" /\ calls[c].pc = "getFirstOperator"
  /\ calls' =
       IF getFirstOperator = NoUser
         THEN Finish(c, "AUTH_ERROR_OPERATOR_NOT_FOUND")
         ELSE [calls EXCEPT ![c].pc = "updateUser", ![c].user = getFirstOperator]
  /\ UNCHANGED <<users, totpCache, sessions, requestFile, now>>
  /\ UNCHANGED <<restartVars, uninstallVars, bulkVars, prepareVars, pathVars, guestVars, composeVars>>

\* changeOperatorPassword, the updateUser after argon2.hash.
ChangeOperatorPasswordUpdate(c) ==
  /\ calls[c].op = "changeOperatorPassword" /\ calls[c].pc = "updateUser"
  /\ users' = updateUser(calls[c].user.id,
                [password |-> argon2Hash(calls[c].arg.newPassword),
                 totpEnabled |-> FALSE, totpSecret |-> NullSecret])
  /\ calls' = Goto(c, "unlink")
  /\ UNCHANGED <<totpCache, sessions, requestFile, now>>
  /\ UNCHANGED <<restartVars, uninstallVars, bulkVars, prepareVars, pathVars, guestVars, composeVars>>

\* changeOperatorPassword, fs.promises.unlink of the request file: it rejects
\* when the file is not there.
ChangeOperatorPasswordUnlink(c) ==
  /\ calls[c].op = "changeOperatorPassword" /\ calls[c].pc = "unlink"
  /\ IF requestFile.exists
       THEN /\ requestFile' = NoRequestFile
            /\ calls' = Goto(c, "destroySessions")
       ELSE /\ calls' = Finish(c, "ENOENT")
            /\ UNCHANGED requestFile
  /\ UNCHANGED <<users, totpCache, sessions, now>>
  /\ UNCHANGED <<restartVars, uninstallVars, bulkVars, prepareVars, pathVars, guestVars, composeVars>>

\* changeOperatorPassword, destroyAllSessionsByUserId and the return.
ChangeOperatorPasswordDestroySessions(c) ==
  /\ calls[c].op = "changeOperatorPassword" /\ calls[c].pc = "destroySessions"
  /\ sessions' = {s \in sessions : s.userId # calls[c].user.id}
  /\ calls' = Finish(c, "email")
  /\ UNCHANGED <<users, totpCache, requestFile, now>>
  /\ UNCHANGED <<restartVars, uninstallVars, bulkVars, prepareVars, pathVars, guestVars, composeVars>>

CheckPasswordChangeRequest(c) ==
  /\ calls[c].pc = "idle"
  /\ calls' = [calls EXCEPT ![c] =
       [IdleCall EXCEPT !.op = "checkPasswordChangeRequest", !.pc = "done",
                        !.ret = IF checkPasswordChangeRequest THEN "true" ELSE "false"]]
  /\ UNCHANGED <<users, totpCache, sessions, requestFile, now>>
  /\ UNCHANGED <<restartVars, uninstallVars, bulkVars, prepareVars, pathVars, guestVars, composeVars>>

CancelPasswordChangeRequest(c) ==
  /\ calls[c].pc = "idle"
  /\ requestFile' = NoRequestFile
  /\ calls' = [calls EXCEPT ![c] =
       [IdleCall EXCEPT !.op = "cancelPasswordChangeRequest", !.pc = "done", !.ret = "true"]]
  /\ UNCHANGED <<users, totpCache, sessions, now>>
  /\ UNCHANGED <<restartVars, uninstallVars, bulkVars, prepareVars, pathVars, guestVars, composeVars>>

\* The operator asks for a password change on the command line
\* (runtipi-cli reset-password): the file is written with the time in
\* seconds; a file with any other text reads as NaN.
RequestPasswordChange(numeric) ==
  /\ requestFile' = [exists |-> TRUE, numeric |-> numeric, secs |-> IF numeric THEN now ELSE 0]
  /\ UNCHANGED <<users, totpCache, sessions, now, calls>>
  /\ UNCHANGED <<restartVars, uninstallVars, bulkVars, prepareVars, pathVars, guestVars, composeVars>>

\* The largest time of a behaviour, in seconds.
MaxNow == 1800

\* Time passes: one second short of the timeout, or the timeout.
Tick(secs) ==
  /\ now + secs <= MaxNow
  /\ now' = now + secs
  /\ UNCHANGED <<users, totpCache, sessions, requestFile, calls>>
  /\ UNCHANGED <<restartVars, uninstallVars, bulkVars, prepareVars, pathVars, guestVars, composeVars>>

\* ----------------------------------------------------------- specifications
RestartIdle ==
  /\ pc = [r \in Reqs |-> "idle"]
  /\ appId = [r \in Reqs |-> ""]
  /\ app = [r \in Reqs |-> NoApp]
  /\ dispatchResult = [r \in Reqs |-> "none"]
  /\ ret = [r \in Reqs |-> "pending"]
  /\ updates = [r \in Reqs |-> <<>>]
  /\ dispatches = [r \in Reqs |-> 0]
  /\ errorLog = {}

UninstallIdle ==
  /\ upc = [u \in Uninstalls |-> "idle"]
  /\ uAppId = [u \in Uninstalls |-> ""]
  /\ uError = [u \in Uninstalls |-> "none"]
  /\ uResult = [u \in Uninstalls |-> "none"]
  /\ composeCalls = [u \in Uninstalls |-> <<>>]
  /\ warnLog = {}
  /\ removed = [u \in Uninstalls |-> {}]

NoBulkArgs == [statuses |-> {}, data |-> [status |-> ""]]

BulkIdle ==
  /\ bulkArgs = NoBulkArgs
  /\ bulkReturned = {}

PrepareIdle ==
  /\ ipc = [c \in Installs |-> "idle"]
  /\ iAppId = [c \in Installs |-> ""]
  /\ chmodOutcome = [c \in Installs |-> "none"]
  /\ permErrorLog = {}

PathsIdle ==
  /\ pathId = [k \in PathCalls |-> <<>>]
  /\ pathResult = [k \in PathCalls |-> NotCalled]

GuestIdle ==
  /\ isVisibleOnGuestDashboard = [a \in AppIds |-> FALSE]
  /\ guestResult = NotQueried

ComposeIdle ==
  /\ architecture = "amd64"
  /\ composeFiles = [a \in AppIds |-> [f \in ComposeFileNames |-> NoFile]]
  /\ composeWritten = [a \in AppIds |-> NoFile]
  /\ composeRead = [a \in AppIds |-> NotRead]

AuthIdle ==
  /\ users = [i \in {} |-> NoUser]
  /\ totpCache = {}
  /\ sessions = {}
  /\ requestFile = NoRequestFile
  /\ now = 0
  /\ calls = [c \in AuthCalls |-> IdleCall]

OtherIdle == GuestIdle /\ ComposeIdle /\ AuthIdle

ExtIdle == BulkIdle /\ PrepareIdle /\ PathsIdle /\ OtherIdle

\* The table holds whatever earlier operations left in it; no request has
\* started.
Init ==
  /\ appTable \in Tables
  /\ RestartIdle
  /\ UninstallIdle
  /\ ExtIdle
  /\ appInstalledDir = [a \in AppIds |-> TRUE]
  /\ appDataDir = [a \in AppIds |-> TRUE]

Next ==
  \/ \E r \in Reqs, a \in AppIds : ExecuteGetApp(r, a)
  \/ \E r \in Reqs : ExecuteUpdateApp(r)
  \/ \E r \in Reqs : ExecuteSendEvent(r)
  \/ \E r \in Reqs, o \in DispatchOutcomes : DispatchEventAsync(r, o)
  \/ \E r \in Reqs : SendEventFinalize(r)
  \/ \E r \in Reqs : SendEventRejected(r)
  \/ \E data \in App : CreateApp(data)
  \/ \E a \in AppIds : DeleteApp(a)

Spec == Init /\ [][Next]_vars

\* One restart request and one uninstall execution, running side by side.
NextNoRetry ==
  \/ \E r \in Reqs, a \in AppIds :
       (\A q \in Reqs \ {r} : pc[q] = "idle") /\ ExecuteGetApp(r, a)
  \/ \E r \in Reqs : ExecuteUpdateApp(r)
  \/ \E r \in Reqs : ExecuteSendEvent(r)
  \/ \E r \in Reqs, o \in DispatchOutcomes : DispatchEventAsync(r, o)
  \/ \E r \in Reqs : SendEventFinalize(r)
  \/ \E r \in Reqs : SendEventRejected(r)
  \/ \E u \in Uninstalls, a \in AppIds :
       (\A v \in Uninstalls \ {u} : upc[v] = "idle") /\ UninstallExecute(u, a)
  \/ \E u \in Uninstalls, ok \in BOOLEAN : EnsureAppDir(u, ok)
  \/ \E u \in Uninstalls, ok \in BOOLEAN : ComposeApp(u, ok)
  \/ \E u \in Uninstalls, ok \in BOOLEAN : DeleteAppFolder(u, ok)
  \/ \E u \in Uninstalls, ok \in BOOLEAN : DeleteAppDataDir(u, ok)

SpecNoRetry == Init /\ [][NextNoRetry]_vars

\* Install preparations alone; no data directory exists yet.
InitPrepare ==
  /\ appTable = [i \in {} |-> Undefined]
  /\ RestartIdle
  /\ UninstallIdle
  /\ ExtIdle
  /\ appInstalledDir = [a \in AppIds |-> TRUE]
  /\ appDataDir = [a \in AppIds |-> FALSE]

NextPrepare ==
  \/ \E c \in Installs, a \in AppIds : InstallExecute(c, a)
  \/ \E c \in Installs, ok \in BOOLEAN : InstallCreateAppDataDir(c, ok)
  \/ \E c \in Installs, ok \in BOOLEAN : InstallSetAppDataDirPermissions(c, ok)
  \/ \E c \in Installs : InstallDispatch(c)

SpecPrepare == InitPrepare /\ [][NextPrepare]_vars

\* getAppPaths on two ids, each any string of the bounded length.
InitPaths ==
  /\ appTable = [i \in {} |-> Undefined]
  /\ RestartIdle
  /\ UninstallIdle
  /\ BulkIdle
  /\ PrepareIdle
  /\ OtherIdle
  /\ pathId \in [PathCalls -> NamespacedIds]
  /\ pathResult = [k \in PathCalls |-> NotCalled]
  /\ appInstalledDir = [a \in AppIds |-> TRUE]
  /\ appDataDir = [a \in AppIds |-> TRUE]

NextPaths == \E k \in PathCalls : GetAppPaths(k)

SpecPaths == InitPaths /\ [][NextPaths]_vars

\* The bulk update, with any statuses and any status to set, on any table.
\* The statuses arguments tried: the arrays of one or two statuses (a longer
\* array excludes more rows by the same test; what notInArray does with an
\* empty array is the query builder's matter and is left out).
BulkStatuses == {{s, t} : s, t \in AppStatus}

NextBulk ==
  \E statuses \in BulkStatuses, data \in [status : AppStatus] :
    UpdateAppsByStatusNotIn(statuses, data)

SpecBulk == Init /\ [][NextBulk]_vars

\* The guest dashboard query on any table, with any visibility of the apps.
InitGuest ==
  /\ appTable \in Tables
  /\ RestartIdle
  /\ UninstallIdle
  /\ BulkIdle /\ PrepareIdle /\ PathsIdle /\ ComposeIdle /\ AuthIdle
  /\ isVisibleOnGuestDashboard \in [AppIds -> BOOLEAN]
  /\ guestResult = NotQueried
  /\ appInstalledDir = [a \in AppIds |-> TRUE]
  /\ appDataDir = [a \in AppIds |-> TRUE]

NextGuest ==
  \/ GetGuestDashboardApps
  \/ \E a \in AppIds, visible \in BOOLEAN : UpdateAppVisibility(a, visible)

SpecGuest == InitGuest /\ [][NextGuest]_vars

\* Writes and reads of the compose file, on either architecture and with any
\* files already in the installed directories.
InitCompose ==
  /\ appTable = [i \in {} |-> Undefined]
  /\ RestartIdle
  /\ UninstallIdle
  /\ BulkIdle /\ PrepareIdle /\ PathsIdle /\ GuestIdle /\ AuthIdle
  /\ architecture \in Architectures
  /\ composeFiles \in [AppIds -> [ComposeFileNames -> ComposeContents \cup {NoFile}]]
  /\ composeWritten = [a \in AppIds |-> NoFile]
  /\ composeRead = [a \in AppIds |-> NotRead]
  /\ appInstalledDir = [a \in AppIds |-> TRUE]
  /\ appDataDir = [a \in AppIds |-> TRUE]

NextCompose ==
  \/ \E a \in AppIds, c \in ComposeContents, ok \in BOOLEAN : WriteDockerComposeYml(a, c, ok)
  \/ \E a \in AppIds, ioOk \in BOOLEAN : GetDockerComposeYaml(a, ioOk)

SpecCompose == InitCompose /\ [][NextCompose]_vars

\* A user with two-factor authentication set up and one without.
TotpUser ==
  [id |-> 1, username |-> "a@tipi", password |-> argon2Hash("password1"), operator |-> TRUE,
   totpEnabled |-> TRUE, totpSecret |-> encrypt("key1", NewSalt), salt |-> NewSalt]
PlainUser ==
  [id |-> 2, username |-> "b@tipi", password |-> argon2Hash("password1"), operator |-> FALSE,
   totpEnabled |-> FALSE, totpSecret |-> NullSecret, salt |-> NullSalt]

NonAuthIdle ==
  /\ appTable = [i \in {} |-> Undefined]
  /\ RestartIdle
  /\ UninstallIdle
  /\ BulkIdle /\ PrepareIdle /\ PathsIdle /\ GuestIdle /\ ComposeIdle
  /\ appInstalledDir = [a \in AppIds |-> TRUE]
  /\ appDataDir = [a \in AppIds |-> TRUE]

\* login and verifyTotp calls, with any username, password, TOTP session id
\* and code, on the two users.
InitLogin ==
  /\ NonAuthIdle
  /\ users = [i \in UserIds |-> IF i = 1 THEN TotpUser ELSE PlainUser]
  /\ totpCache = {}
  /\ sessions = {}
  /\ requestFile = NoRequestFile
  /\ now = 0
  /\ calls = [c \in AuthCalls |-> IdleCall]

NextLogin ==
  \/ \E c \in AuthCalls, username \in Usernames \cup {"unknown"}, password \in Passwords :
       Login(c, username, password)
  \/ \E c \in AuthCalls : LoginVerified(c)
  \/ \E c \in AuthCalls, totpSessionId \in AuthCalls \cup {0}, totpCode \in TotpCodes :
       VerifyTotp(c, totpSessionId, totpCode)
  \/ \E c \in AuthCalls : VerifyTotpGetUser(c)

SpecLogin == InitLogin /\ [][NextLogin]_vars

\* The operator before any TOTP set-up, after getTotpUri, and after setupTotp.
FreshOperator ==
  [id |-> 1, username |-> "a@tipi", password |-> argon2Hash("password1"), operator |-> TRUE,
   totpEnabled |-> FALSE, totpSecret |-> NullSecret, salt |-> NullSalt]
OperatorWithSecret ==
  [FreshOperator EXCEPT !.totpSecret = encrypt("key1", NewSalt), !.salt = NewSalt]
OperatorWithTotp == [OperatorWithSecret EXCEPT !.totpEnabled = TRUE]

\* getTotpUri, setupTotp, disableTotp and changeOperatorPassword calls on one
\* user, in any interleaving.
InitTotp ==
  /\ NonAuthIdle
  /\ users \in {[i \in {1} |-> u] : u \in {FreshOperator, OperatorWithSecret, OperatorWithTotp}}
  /\ totpCache = {}
  /\ sessions = {}
  /\ requestFile = NoRequestFile
  /\ now = 0
  /\ calls = [c \in AuthCalls |-> IdleCall]

NextTotp ==
  \/ \E c \in AuthCalls, password \in Passwords : GetTotpUri(c, 1, password)
  \/ \E c \in AuthCalls, newTotpSecret \in TotpSecrets : GetTotpUriVerified(c, newTotpSecret)
  \/ \E c \in AuthCalls, totpCode \in TotpCodes : SetupTotp(c, 1, totpCode)
  \/ \E c \in AuthCalls : SetupTotpUpdate(c)
  \/ \E c \in AuthCalls, password \in Passwords : DisableTotp(c, 1, password)
  \/ \E c \in AuthCalls : DisableTotpVerified(c)
  \/ \E c \in AuthCalls, newPassword \in Passwords : ChangeOperatorPassword(c, newPassword)
  \/ \E c \in AuthCalls : ChangeOperatorPasswordGetOperator(c)
  \/ \E c \in AuthCalls : ChangeOperatorPasswordUpdate(c)
  \/ \E c \in AuthCalls : ChangeOperatorPasswordUnlink(c)
  \/ \E c \in AuthCalls : ChangeOperatorPasswordDestroySessions(c)
  \/ RequestPasswordChange(TRUE)

SpecTotp == InitTotp /\ [][NextTotp]_vars

\* register and isConfigured calls in any interleaving, on an empty user
\* table and on one that has its operator.
InitRegister ==
  /\ NonAuthIdle
  /\ users \in {[i \in {} |-> NoUser], [i \in {1} |-> FreshOperator]}
  /\ totpCache = {}
  /\ sessions = {}
  /\ requestFile = NoRequestFile
  /\ now = 0
  /\ calls = [c \in AuthCalls |-> IdleCall]

NextRegister ==
  \/ \E c \in AuthCalls, username \in RegisterUsernames, password \in Passwords \cup {""} :
       Register(c, username, password)
  \/ \E c \in AuthCalls : RegisterGetUser(c)
  \/ \E c \in AuthCalls, created \in BOOLEAN : RegisterCreateUser(c, created)
  \/ \E c \in AuthCalls : IsConfigured(c)

SpecRegister == InitRegister /\ [][NextRegister]_vars

\* Password change requests, their expiry and cancellation, and
\* changeOperatorPassword calls, with or without an operator.
InitReset ==
  /\ NonAuthIdle
  /\ users \in {[i \in {} |-> NoUser], [i \in {1} |-> OperatorWithTotp]}
  /\ totpCache = {}
  /\ sessions = {}
  /\ requestFile = NoRequestFile
  /\ now = 0
  /\ calls = [c \in AuthCalls |-> IdleCall]

NextReset ==
  \/ \E numeric \in BOOLEAN : RequestPasswordChange(numeric)
  \/ \E secs \in {REQUEST_TIMEOUT_SECS - 1, REQUEST_TIMEOUT_SECS} : Tick(secs)
  \/ \E c \in AuthCalls, newPassword \in Passwords : ChangeOperatorPassword(c, newPassword)
  \/ \E c \in AuthCalls : ChangeOperatorPasswordGetOperator(c)
  \/ \E c \in AuthCalls : ChangeOperatorPasswordUpdate(c)
  \/ \E c \in AuthCalls : ChangeOperatorPasswordUnlink(c)
  \/ \E c \in AuthCalls : ChangeOperatorPasswordDestroySessions(c)
  \/ \E c \in AuthCalls : CheckPasswordChangeRequest(c)
  \/ \E c \in AuthCalls : CancelPasswordChangeRequest(c)

SpecReset == InitReset /\ [][NextReset]_vars

\* The uninstall executions alone, over directories that exist or not.
InitUninstall ==
  /\ appTable = [i \in AppIds |-> [id |-> i, status |-> "uninstalling", config |-> "config"]]
  /\ RestartIdle
  /\ UninstallIdle
  /\ ExtIdle
  /\ appInstalledDir \in [AppIds -> BOOLEAN]
  /\ appDataDir \in [AppIds -> BOOLEAN]

NextUninstall ==
  \/ \E u \in Uninstalls, a \in AppIds : UninstallExecute(u, a)
  \/ \E u \in Uninstalls, ok \in BOOLEAN : EnsureAppDir(u, ok)
  \/ \E u \in Uninstalls, ok \in BOOLEAN : ComposeApp(u, ok)
  \/ \E u \in Uninstalls, ok \in BOOLEAN : DeleteAppFolder(u, ok)
  \/ \E u \in Uninstalls, ok \in BOOLEAN : DeleteAppDataDir(u, ok)

SpecUninstall == InitUninstall /\ [][NextUninstall]_vars

\* ------------------------------------------------------------------- claims
Last(seq) == seq[Len(seq)]

TerminalStatus == AppStatus \ TransitionalStatus

\* C1: every restart that dispatched the engine command and whose sendEvent
\* has ended (dispatch succeeded, failed or rejected) wrote a terminal status
\* as its last status write.
C1_DispatchedRestartIsFinalized ==
  \A r \in Reqs :
    (pc[r] = "done" /\ dispatches[r] > 0) =>
      (Len(updates[r]) = 2 /\ Last(updates[r]) \in TerminalStatus)

\* C2: no two restart requests for the same app id have their engine
\* dispatch in flight at the same time.
C2_OneDispatchInFlightPerApp ==
  \A r1, r2 \in Reqs :
    (r1 # r2 /\ pc[r1] = "dispatched" /\ pc[r2] = "dispatched") => appId[r1] # appId[r2]

\* C3: a restart whose getApp reads a record with a status other than
\* running or stopped is rejected with InvalidTransition there and then (so
\* that it writes no status and dispatches nothing).
C3_RestartNeedsRunningOrStopped ==
  [][\A r \in Reqs :
       (/\ pc[r] = "idle"
        /\ pc'[r] # "idle"
        /\ getApp(appId'[r]) # Undefined
        /\ getApp(appId'[r]).status \notin RestartableStatus) =>
         (pc'[r] = "thrown" /\ ret'[r] = "InvalidTransition")]_vars

\* C4: between the getApp and the updateApp(status: 'restarting') of one
\* execute, no other operation changes or deletes that app's record.
C4_ReadCheckWriteAtomic ==
  [][\A r \in Reqs :
       (pc[r] = "found" /\ pc'[r] = "found") =>
         (IF appId[r] \in DOMAIN appTable' THEN appTable'[appId[r]] ELSE Undefined)
           = getApp(appId[r])]_vars

\* C5: the status write that follows a returned dispatch writes 'running' if
\* and only if the result has success = true, and 'stopped' with the failure
\* logged if success = false; an existing record then has that status.
C5_FinalizeMapsOutcome ==
  [][\A r \in Reqs :
       (pc[r] = "settled" /\ pc'[r] = "done" /\ dispatchResult[r] # "rejected") =>
         /\ Len(updates'[r]) = Len(updates[r]) + 1
         /\ (Last(updates'[r]) = "running") <=> (dispatchResult[r] = "success")
         /\ (dispatchResult[r] = "failure") =>
              (Last(updates'[r]) = "stopped" /\ r \in errorLog')
         /\ (dispatchResult[r] = "success") => (errorLog' = errorLog)
         /\ (appId[r] \in DOMAIN appTable) =>
              (/\ appId[r] \in DOMAIN appTable'
               /\ appTable'[appId[r]].status = Last(updates'[r]))]_vars

C5_Witness ==
  \E r1, r2 \in Reqs :
    /\ pc[r1] = "done" /\ dispatchResult[r1] = "success"
    /\ getApp(appId[r1]).status = "running"
    /\ pc[r2] = "done" /\ dispatchResult[r2] = "failure"
    /\ getApp(appId[r2]).status = "stopped" /\ r2 \in errorLog

\* C6: a restart writes nothing but 'restarting' before its dispatch has
\* returned, it writes 'running' only after its dispatch returned success, and
\* an existing record's status becomes 'running' only in the finalize step of
\* a restart of that app whose dispatch returned success.
C6_NoOptimisticStatus ==
  [][/\ \A r \in Reqs :
          (updates'[r] # updates[r]) =>
            /\ (dispatchResult[r] = "none") => (Last(updates'[r]) = "restarting")
            /\ (Last(updates'[r]) = "running") =>
                 (dispatchResult[r] = "success" /\ dispatches[r] > 0)
     /\ \A a \in DOMAIN appTable \cap DOMAIN appTable' :
          (appTable[a].status # "running" /\ appTable'[a].status = "running") =>
            \E r \in Reqs :
              /\ appId[r] = a
              /\ dispatchResult[r] = "success"
              /\ pc[r] = "settled" /\ pc'[r] = "done"]_vars

C6_Witness ==
  \E r \in Reqs :
    /\ pc[r] = "done"
    /\ updates[r] = <<"restarting", "running">>
    /\ getApp(appId[r]).status = "running"

\* C7: when the dispatch of a restart has been started, 'restarting' was
\* written first and execute has returned to its caller without an error,
\* whether the engine is still running or has ended with any outcome; the
\* caller never gets anything but that return or the app-not-found error.
C7_NonBlockingAccept ==
  \A r \in Reqs :
    /\ (dispatches[r] > 0) =>
         (/\ updates[r] # <<>>
          /\ updates[r][1] = "restarting"
          /\ ret[r] = "resolved")
    /\ (ret[r] = "resolved") => (dispatches[r] = 1 /\ pc[r] \in {"dispatched", "settled", "done"})
    /\ ret[r] \in {"pending", "resolved", "APP_ERROR_APP_NOT_FOUND"}

C7_Witness ==
  \E r1, r2 \in Reqs :
    /\ pc[r1] = "dispatched" /\ ret[r1] = "resolved"
    /\ pc[r2] = "settled" /\ dispatchResult[r2] = "failure" /\ ret[r2] = "resolved"

\* C8: an execute whose getApp finds no record throws the app-not-found
\* error, and it alone does: it makes no updateApp call and no dispatch.
C8_MissingAppNoSideEffect ==
  \A r \in Reqs :
    /\ (pc[r] # "idle" /\ app[r] = NoApp) =>
         (/\ pc[r] = "thrown"
          /\ ret[r] = "APP_ERROR_APP_NOT_FOUND"
          /\ updates[r] = <<>>
          /\ dispatches[r] = 0
          /\ dispatchResult[r] = "none")
    /\ (ret[r] = "APP_ERROR_APP_NOT_FOUND") => (app[r] = NoApp /\ pc[r] = "thrown")

C8_Witness ==
  \E r1, r2 \in Reqs :
    /\ pc[r1] = "thrown" /\ ret[r1] = "APP_ERROR_APP_NOT_FOUND"
    /\ pc[r2] = "done" /\ appId[r2] = appId[r1]

BothDirs == {"appInstalledDir", "appDataDir"}

\* C9: after a failed compose down the failure is logged as a warning and is
\* never the error the command ends with; when neither directory removal
\* fails, both directories are removed and uninstall returns success.
C9_UninstallBestEffort ==
  \A u \in Uninstalls :
    (composeCalls[u] = <<"failed">>) =>
      /\ u \in warnLog
      /\ uError[u] \in {"none", "deleteAppFolder", "deleteAppDataDir"}
      /\ upc[u] \in {"deleteAppFolder", "deleteAppDataDir", "done"}
      /\ (upc[u] = "done" /\ uError[u] = "none") =>
           (/\ uResult[u] = "success"
            /\ removed[u] = BothDirs
            /\ ~appInstalledDir[uAppId[u]]
            /\ ~appDataDir[uAppId[u]])

C9_Witness ==
  \E u \in Uninstalls :
    /\ upc[u] = "done"
    /\ composeCalls[u] = <<"failed">>
    /\ uResult[u] = "success"
    /\ removed[u] = BothDirs

\* C10: uninstall returns success only with both directories removed without
\* error; a failed deleteAppFolder or deleteAppDataDir makes it return the
\* error result; and an error result never comes from the compose call.
C10_UninstallSuccessNeedsBundleRemoved ==
  \A u \in Uninstalls :
    /\ (uResult[u] = "success") =>
         (/\ uError[u] = "none"
          /\ removed[u] = BothDirs
          /\ ~appInstalledDir[uAppId[u]]
          /\ ~appDataDir[uAppId[u]])
    /\ (uError[u] \in {"deleteAppFolder", "deleteAppDataDir"}) =>
         (upc[u] = "done" /\ uResult[u] = "failure")
    /\ (uResult[u] = "failure") =>
         uError[u] \in {"ensureAppDir", "deleteAppFolder", "deleteAppDataDir"}
    /\ (upc[u] = "done") => (uResult[u] \in {"success", "failure"})

C10_Witness ==
  \E u1, u2 \in Uninstalls :
    /\ uError[u1] = "deleteAppFolder" /\ uResult[u1] = "failure"
    /\ appInstalledDir[uAppId[u1]]
    /\ uError[u2] = "deleteAppDataDir" /\ uResult[u2] = "failure"
    /\ composeCalls[u2] = <<"ok">>

\* C11: when ensureAppDir fails in an uninstall, composeApp is never called,
\* the execution removes no directory, and it ends with the error result.
C11_EnsureFailureStopsUninstall ==
  \A u \in Uninstalls :
    /\ (uError[u] = "ensureAppDir") =>
         (/\ upc[u] = "done"
          /\ uResult[u] = "failure"
          /\ composeCalls[u] = <<>>
          /\ removed[u] = {})
    /\ (composeCalls[u] # <<>> \/ removed[u] # {}) => (uError[u] # "ensureAppDir")

C11_Witness ==
  \E u1, u2 \in Uninstalls :
    /\ uError[u1] = "ensureAppDir" /\ uResult[u1] = "failure"
    /\ appInstalledDir[uAppId[u1]] /\ appDataDir[uAppId[u1]]
    /\ upc[u2] = "done" /\ uResult[u2] = "success" /\ uAppId[u2] # uAppId[u1]

\* C13: a restart whose dispatch timed out does not write 'running', and it
\* is not handled as the ordinary engine failure is (logged as a failed
\* restart and set to 'stopped').
C13_TimeoutDistinctFromFailure ==
  \A r \in Reqs :
    (pc[r] = "done" /\ dispatchResult[r] = TimeoutResult) =>
      (/\ Last(updates[r]) # "running"
       /\ ~(r \in errorLog /\ Last(updates[r]) = FinalStatus(FALSE)))

\* C15: a step of a restart of app A leaves the record of every other app
\* as it is (present or absent, all fields), and a restart that has begun is
\* never held up: its next step is enabled whatever the other requests do.
C15_RestartStepFrame ==
  \A r \in Reqs :
    (pc'[r] # pc[r]) =>
      \A b \in AppIds \ {appId'[r]} :
        /\ (b \in DOMAIN appTable') <=> (b \in DOMAIN appTable)
        /\ (b \in DOMAIN appTable) => (appTable'[b] = appTable[b])

C15_RestartNotBlocked ==
  \A r \in Reqs :
    /\ (pc[r] = "found") => ENABLED ExecuteUpdateApp(r)
    /\ (pc[r] = "updated") => ENABLED ExecuteSendEvent(r)
    /\ (pc[r] = "settled") => ENABLED (SendEventFinalize(r) \/ SendEventRejected(r))

C15_CrossAppIndependence == [][C15_RestartStepFrame]_vars /\ []C15_RestartNotBlocked

C15_Witness ==
  \E r1, r2 \in Reqs :
    /\ appId[r1] # appId[r2]
    /\ pc[r1] = "done" /\ dispatchResult[r1] = "success"
    /\ pc[r2] = "updated"
    /\ getApp(appId[r1]).status = "running"
    /\ getApp(appId[r2]).status = "restarting"

\* C17: an uninstall calls composeApp only after ensureAppDir returned,
\* removes a directory only after the composeApp call has ended, and removes
\* the data directory only after it removed the app folder.
C17_UninstallOrder ==
  \A u \in Uninstalls :
    /\ (composeCalls[u] # <<>>) =>
         (upc[u] \in {"deleteAppFolder", "deleteAppDataDir", "done"}
          /\ uError[u] # "ensureAppDir")
    /\ (upc[u] \in {"deleteAppFolder", "deleteAppDataDir"}) => (Len(composeCalls[u]) = 1)
    /\ (removed[u] # {}) => (Len(composeCalls[u]) = 1)
    /\ ("appDataDir" \in removed[u]) => ("appInstalledDir" \in removed[u])
    /\ (upc[u] = "deleteAppDataDir") => ("appInstalledDir" \in removed[u])
    /\ (uError[u] = "deleteAppFolder") => (removed[u] = {})

C17_Witness ==
  \E u \in Uninstalls :
    /\ upc[u] = "deleteAppDataDir"
    /\ composeCalls[u] = <<"failed">>
    /\ removed[u] = {"appInstalledDir"}
    /\ appDataDir[uAppId[u]]

\* C18: every step of a restart leaves the set of records and the id and
\* config of every record as they are, and the statuses a restart passes to
\* updateApp are 'restarting', 'running' and 'stopped' only.
C18_RestartWritesStatusOnly ==
  [][\A r \in Reqs :
       (pc'[r] # pc[r]) =>
         /\ DOMAIN appTable' = DOMAIN appTable
         /\ \A a \in DOMAIN appTable :
              /\ appTable'[a].id = appTable[a].id
              /\ appTable'[a].config = appTable[a].config
              /\ DOMAIN appTable'[a] = DOMAIN appTable[a]
         /\ \A i \in 1..Len(updates'[r]) :
              updates'[r][i] \in {"restarting", "running", "stopped"}]_vars

C18_Witness ==
  \E r \in Reqs :
    /\ pc[r] = "done"
    /\ updates[r] = <<"restarting", "stopped">>
    /\ getApp(appId[r]) = [id |-> appId[r], status |-> "stopped", config |-> "config"]

\* C19: the set of records changes only in steps that are no step of a
\* restart, and the status write of a finalize whose record is absent leaves
\* the table as it is.
C19_FinalizeNeverRecreates ==
  [][/\ (DOMAIN appTable' # DOMAIN appTable) => (pc' = pc /\ updates' = updates)
     /\ \A r \in Reqs :
          (pc[r] = "settled" /\ pc'[r] = "done" /\ appId[r] \notin DOMAIN appTable) =>
            (appTable' = appTable)]_vars

C19_Witness ==
  \E r \in Reqs :
    /\ pc[r] = "done"
    /\ Len(updates[r]) = 2
    /\ appId[r] \notin DOMAIN appTable

\* C14: a restart that was accepted makes exactly one dispatchEventAsync call,
\* whatever the outcome, and one that found no app makes none; an uninstall
\* execution calls composeApp at most once, and once if it got that far.
C14_NoAutomaticRetry ==
  /\ \A r \in Reqs :
       /\ dispatches[r] = IF pc[r] \in {"dispatched", "settled", "done"} THEN 1 ELSE 0
       /\ (ret[r] = "resolved") => (dispatches[r] = 1)
       /\ (ret[r] = "APP_ERROR_APP_NOT_FOUND") => (dispatches[r] = 0)
  /\ \A u \in Uninstalls :
       /\ Len(composeCalls[u]) <= 1
       /\ (upc[u] \in {"deleteAppFolder", "deleteAppDataDir"}) => (Len(composeCalls[u]) = 1)
       /\ (upc[u] = "done" /\ uError[u] # "ensureAppDir") => (Len(composeCalls[u]) = 1)

C14_Witness ==
  \E r \in Reqs, u \in Uninstalls :
    /\ pc[r] = "done" /\ dispatchResult[r] = "failure" /\ dispatches[r] = 1
    /\ upc[u] = "done" /\ composeCalls[u] = <<"failed">> /\ uResult[u] = "success"

\* C12: a command whose chmod of the data directory failed is aborted: it
\* ends errored and never reaches its engine dispatch.
C12_PermissionFailureAborts ==
  \A c \in Installs : (chmodOutcome[c] = "failed") => (ipc[c] = "errored")

\* C16: two getAppPaths calls on distinct ids that both return paths return
\* distinct appDataDir and distinct appInstalledDir.
C16_DistinctIdsDistinctDirs ==
  (/\ pathResult["first"] # NotCalled /\ ~pathResult["first"].threw
   /\ pathResult["second"] # NotCalled /\ ~pathResult["second"].threw
   /\ pathId["first"] # pathId["second"]) =>
    (/\ pathResult["first"].dataDir # pathResult["second"].dataDir
     /\ pathResult["first"].installedDir # pathResult["second"].installedDir)

C21_GuestDashboardExact ==
  [][(guestResult' # guestResult) =>
       LET rows == guestResult'.rows
       IN /\ {rows[i] : i \in 1..Len(rows)} =
               {appTable[a] : a \in {b \in DOMAIN appTable :
                  appTable[b].status = "running" /\ isVisibleOnGuestDashboard[b]}}
          /\ \A i, j \in 1..Len(rows) : (i < j) => (IdRank(rows[i].id) < IdRank(rows[j].id))
          /\ \A i \in 1..Len(rows) :
               rows[i].status \notin (TransitionalStatus \cup {"stopped", "errored"})]_vars

C21_Witness ==
  /\ DOMAIN appTable = AppIds
  /\ appTable["store_a"].status = "restarting" /\ isVisibleOnGuestDashboard["store_a"]
  /\ appTable["store_b"].status = "running" /\ isVisibleOnGuestDashboard["store_b"]
  /\ guestResult = [called |-> TRUE, rows |-> <<appTable["store_b"]>>]

\* The strings with no separator in them.
C22_NoSeparator(str) == \A i \in 1..Len(str) : str[i] # "_"

\* The id is malformed: it has no separator, or nothing before the first
\* separator, or nothing between it and the end or the next separator.
C22_Malformed(str) ==
  \/ C22_NoSeparator(str)
  \/ \E i \in 1..Len(str) :
       /\ str[i] = "_"
       /\ C22_NoSeparator(SubSeq(str, 1, i - 1))
       /\ (i = 1 \/ i = Len(str) \/ str[i + 1] = "_")

\* C22: a getAppPaths call on a malformed id throws and returns no path; on
\* an id store_id it returns <appDataDir>/store/id and <dataDir>/apps/store/id.
C22_GetAppPathsContract ==
  \A k \in PathCalls :
    (pathResult[k] # NotCalled) =>
      /\ C22_Malformed(pathId[k]) => (pathResult[k] = Threw)
      /\ \A i \in 1..Len(pathId[k]) :
           LET store == SubSeq(pathId[k], 1, i - 1)
               id == SubSeq(pathId[k], i + 1, Len(pathId[k]))
           IN (/\ pathId[k][i] = "_"
               /\ store # <<>> /\ id # <<>>
               /\ C22_NoSeparator(store) /\ C22_NoSeparator(id)) =>
                pathResult[k] =
                  [threw |-> FALSE,
                   dataDir |-> <<"<appDataDir>", "/">> \o store \o <<"/">> \o id,
                   installedDir |->
                     <<"<dataDir>", "/", "a", "p", "p", "s", "/">> \o store \o <<"/">> \o id]

C22_Witness ==
  /\ pathResult["first"] = Threw /\ pathId["first"] = <<"a", "_">>
  /\ pathId["second"] = <<"a", "_", "b">>
  /\ pathResult["second"] # NotCalled /\ ~pathResult["second"].threw

\* C23: after a successful writeDockerComposeYml(appId, c), a
\* getDockerComposeYaml(appId) that met no I/O error returns the content c.
C23_ComposeRoundTrip ==
  \A a \in AppIds :
    (composeWritten[a] # NoFile /\ composeRead[a] # NotRead /\ ~composeRead[a].error) =>
      (composeRead[a].content = composeWritten[a])

\* The session the call made, if it made one.
C24_SessionOf(c) == {s \in sessions : s.sessionId = c}

\* C24: a login with valid credentials of a user with totpEnabled makes no
\* session and returns a TOTP session id that the cache binds to that user; a
\* session of such a user is made only by a verifyTotp call whose TOTP
\* session id the cache binds to that user and whose code is valid for the
\* user's secret; a call that threw made no session.
C24_TwoFactorGating ==
  /\ \A c \in AuthCalls :
       (/\ calls[c].op = "login" /\ calls[c].pc = "done"
        /\ calls[c].user.totpEnabled
        /\ argon2Verify(calls[c].user.password, calls[c].arg.password)) =>
         /\ C24_SessionOf(c) = {}
         /\ calls[c].ret = "totpSessionId"
         /\ [key |-> c, val |-> calls[c].user.id] \in totpCache
  /\ \A s \in sessions :
       users[s.userId].totpEnabled =>
         LET call == calls[s.sessionId]
         IN /\ call.op = "verifyTotp" /\ call.ret = "true"
            /\ [key |-> call.arg.totpSessionId, val |-> s.userId] \in totpCache
            /\ call.arg.totpCode.of = decrypt(users[s.userId].totpSecret, users[s.userId].salt)
  /\ \A c \in AuthCalls :
       (calls[c].ret \notin {"sessionId", "true"}) => (C24_SessionOf(c) = {})

C24_Witness ==
  \E c1, c2 \in AuthCalls :
    /\ calls[c1].op = "login" /\ calls[c1].ret = "totpSessionId"
    /\ calls[c2].op = "verifyTotp" /\ calls[c2].ret = "true"
    /\ calls[c2].arg.totpSessionId = c1
    /\ sessions = {[sessionId |-> c2, userId |-> 1]}

\* C25: a user with totpEnabled has a totpSecret and a salt.
C25_EnabledTotpHasSecret ==
  \A i \in DOMAIN users :
    users[i].totpEnabled => (users[i].totpSecret # NullSecret /\ users[i].salt # NullSalt)

\* C26: there is never more than one operator, whatever register calls run
\* and however they interleave.
C26_AtMostOneOperator == Cardinality({i \in DOMAIN users : users[i].operator}) <= 1

\* A password change request less than 900 seconds old is there.
C27_LiveRequest ==
  requestFile.exists /\ requestFile.numeric /\ now - requestFile.secs < 900

\* The call has passed the check of the request.
C27_Admitted(c) ==
  /\ calls[c].op = "changeOperatorPassword"
  /\ calls[c].pc \in {"getFirstOperator", "updateUser", "unlink", "destroySessions"}

\* C27: a changeOperatorPassword call that finds no request less than 900
\* seconds old fails with AUTH_ERROR_NO_CHANGE_PASSWORD_REQUEST and one that
\* finds such a request goes on; the user table is written only by a call
\* that went on, which sets the password and disables TOTP; the call's unlink
\* removes the request, and a call that returned wrote before it removed.
C27_StepGated ==
  /\ \A c \in AuthCalls :
       (calls[c].pc = "idle" /\ calls'[c].op = "changeOperatorPassword") =>
         IF C27_LiveRequest
           THEN calls'[c].pc = "getFirstOperator"
           ELSE /\ calls'[c].pc = "done"
                /\ calls'[c].ret = "AUTH_ERROR_NO_CHANGE_PASSWORD_REQUEST"
  /\ (users' # users) =>
       \E c \in AuthCalls :
         /\ C27_Admitted(c) /\ calls[c].pc = "updateUser"
         /\ calls'[c].pc = "unlink"
         /\ \A i \in DOMAIN users :
              users'[i] =
                IF i = calls[c].user.id
                  THEN [users[i] EXCEPT !.password = argon2Hash(calls[c].arg.newPassword),
                                        !.totpEnabled = FALSE, !.totpSecret = NullSecret]
                  ELSE users[i]
  /\ \A c \in AuthCalls :
       (calls[c].pc = "unlink" /\ calls'[c].pc = "destroySessions") =>
         (requestFile.exists /\ ~requestFile'.exists)
  /\ \A c \in AuthCalls :
       (calls'[c].ret = "email") => (calls[c].pc = "destroySessions" \/ calls[c].ret = "email")

====
